---- MODULE Spec2Model ----
(***************************************************************************)
(* app-store-web-scraper: the Session (HTTP transport, retry, delay) and   *)
(* the Entry (construction, token extraction, the reviews() generator),    *)
(* run against the mock App Store of tests/test_all.py.                    *)
(*                                                                         *)
(* Strings that the code converts (app id, country, limit, offset, dates)  *)
(* are sequences of one-character strings, so that int(), str(), lower()   *)
(* and the f-strings are computed, not assumed.  An optional value (None   *)
(* or a value) is the empty sequence or a one-element sequence.            *)
(***************************************************************************)
EXTENDS Integers, Sequences, FiniteSets, TLC

\* ------------------------------------------------------------------ bounds
MaxReviews == 3
MaxPageSize == 2
MaxLimit == 3
MaxRetries == 1
MaxJitter == 1
MaxDelay == 2

\* ------------------------------------------------------- program constants
REVIEWS_PAGE_SIZE == 20

\* The defaults of AppStoreSession.__init__.  Times are counted in units of
\* 1/20 s: delay=0.2 s, delay_jitter=0.05 s, retries_backoff_factor=2 s,
\* retries_backoff_max=60 s.
TicksPerSecond == 20
default_delay == 4
default_delay_jitter == 1
default_retries == 4
default_retries_backoff_factor == 40
default_retries_backoff_jitter == 0
default_retries_backoff_max == 1200

VARIABLES
    session,    \* the AppStoreSession: its configuration and _made_first_request
    upstream,   \* the mock App Store: how many reviews it holds, its page size
    entry,      \* the AppStoreEntry objects, by name
    gen         \* the generators returned by reviews(), by name

vars == <<session, upstream, entry, gen>>

\* ------------------------------------------------------------- python values
None == << >>
Some(x) == <<x>>

Digit == <<"0", "1", "2", "3", "4", "5", "6", "7", "8", "9">>

DigitVal(c) == CHOOSE d \in 0..9 : Digit[d + 1] = c

RECURSIVE str(_)
str(n) == IF n < 10 THEN <<Digit[n + 1]>>
          ELSE str(n \div 10) \o <<Digit[(n % 10) + 1]>>

RECURSIVE int(_)
int(s) == IF Len(s) = 1 THEN DigitVal(s[1])
          ELSE 10 * int(SubSeq(s, 1, Len(s) - 1)) + DigitVal(s[Len(s)])

LowerChar(c) == CASE c = "D" -> "d" [] c = "E" -> "e" [] OTHER -> c

lower(s) == [k \in 1..Len(s) |-> LowerChar(s[k])]

Min(a, b) == IF a < b THEN a ELSE b

\* An app_id argument is an int or a numeric str.
IntArg(n) == [kind |-> "int", n |-> n, s |-> << >>]
StrArg(s) == [kind |-> "str", n |-> 0, s |-> s]

\* int(app_id)
app_id_int(a) == IF a.kind = "int" THEN a.n ELSE int(a.s)

\* f"{app_id}"
app_id_format(a) == IF a.kind = "int" THEN str(a.n) ELSE a.s

\* dict.get(key): None when the key is missing
get(d, key) == IF key \in DOMAIN d THEN Some(d[key]) ELSE None

EmptyDict == [k \in {} |-> 0]

\* ------------------------------------------------------------------ errors
\* AppNotFound is a subclass of AppStoreError.
IsAppStoreError(err) == err \in {"AppStoreError", "AppNotFound"}

Raise(err) == [raised |-> err, value |-> None]
Return(v) == [raised |-> "", value |-> Some(v)]

\* --------------------------------------------------- the mock App Store
APP_ID == <<"1", "2">>
COUNTRY == <<"d", "e">>
STORE_PAGE_PATH == [kind |-> "page", country |-> COUNTRY, app |-> APP_ID]
REVIEWS_API_PATH == [kind |-> "reviews", country |-> COUNTRY, app |-> APP_ID]

\* A second app of the store, as `numbers` next to `pages` in the Session's
\* documentation.
OTHER_APP_ID == <<"3", "4">>
StoreApps == {APP_ID, OTHER_APP_ID}

API_TOKENS == {"tokenA", "tokenB"}

\* datetime.isoformat() of a naive datetime: no "Z" suffix
isoformat(d) == str(d.t)

fake_app_review(k) ==
    [id |-> k,
     date |-> [t |-> 10 + k, tz |-> "naive"],
     user_name |-> "user",
     title |-> "title",
     review |-> "review",
     rating |-> 1 + (k % 5),
     is_edited |-> (k % 2 = 0),
     developer_response |-> None]

\* The first value of a query parameter, or None.
RECURSIVE args_get(_, _)
args_get(query, key) ==
    IF query = << >> THEN None
    ELSE IF Head(query).k = key THEN Some(Head(query).v)
    ELSE args_get(Tail(query), key)

\* reviews[a:b] of Python, 0-based and clipped to the list
Slice(s, a, b) == SubSeq(s, a + 1, Min(b, Len(s)))

review_json(review) ==
    [id |-> review.id,
     attributes |-> [date |-> isoformat(review.date),
                     userName |-> review.user_name,
                     title |-> review.title,
                     review |-> review.review,
                     rating |-> review.rating,
                     isEdited |-> review.is_edited]]

\* A dict without one key, and with one more key.
without(d, key) == [k \in DOMAIN d \ {key} |-> d[k]]
with(d, key, v) == [k \in DOMAIN d \cup {key} |-> IF k = key THEN v ELSE d[k]]

\* The developer response the API attaches to a review.
response_json(review) ==
    [id |-> 900 + review.id, body |-> "body", modified |-> isoformat(review.date) \o <<"Z">>]

\* The shapes of the items the API may serve: as the mock's, with a developer
\* response, with a null, an empty or an incomplete developer response, or
\* without one of the fields a review must have.
ItemShapes ==
    {"plain", "response", "null_response", "empty_response", "partial_response",
     "no_id", "no_date", "no_rating"}

item_json(review, shape) ==
    LET item == review_json(review)
        developerResponse(v) == [item EXCEPT !.attributes = with(@, "developerResponse", v)]
    IN  CASE shape = "response" -> developerResponse(response_json(review))
          [] shape = "null_response" -> developerResponse(None)
          [] shape = "empty_response" -> developerResponse(EmptyDict)
          [] shape = "partial_response" ->
                 developerResponse(without(response_json(review), "modified"))
          [] shape = "no_id" -> without(item, "id")
          [] shape = "no_date" -> [item EXCEPT !.attributes = without(@, "date")]
          [] shape = "no_rating" -> [item EXCEPT !.attributes = without(@, "rating")]
          [] OTHER -> item

\* Mutant: the store gives a continuation only with a full page.
request_handler_next_if_full(path, items, page_size, query) ==
    LET arg == args_get(query, "offset")
        offset == IF arg = None THEN 0 ELSE int(arg[1])
        next_offset == offset + page_size
        page == Slice(items, offset, next_offset)
        next_path == IF Len(page) = page_size
                     THEN Some([path |-> path,
                                query |-> <<[k |-> "offset", v |-> str(next_offset)]>>])
                     ELSE None
    IN  [next |-> next_path, data |-> page]

\* The JSON body the mock answers to a reviews request of this path and query,
\* `items` being the JSON of the reviews it holds.
request_handler(path, items, page_size, query) ==
    LET arg == args_get(query, "offset")
        offset == IF arg = None THEN 0 ELSE int(arg[1])
        next_offset == offset + page_size
        page == Slice(items, offset, next_offset)
        next_path == IF Len(page) > 0
                     THEN Some([path |-> path,
                                query |-> <<[k |-> "offset", v |-> str(next_offset)]>>])
                     ELSE None
    IN  [next |-> next_path, data |-> page]

mock_app_reviews(up) == [k \in 1..up.n |-> fake_app_review(k)]

\* The reviews the store holds for an app: the mock's for APP_ID, as many others
\* for the second app.
store_reviews(up, app) ==
    IF app = APP_ID THEN mock_app_reviews(up)
    ELSE [k \in 1..up.n |-> fake_app_review(100 + k)]

\* Their JSON items, each in the shape the store gives it.
store_items(up, app) ==
    [k \in 1..up.n |-> item_json(store_reviews(up, app)[k], up.shapes[k])]

\* A store of n reviews per app, served in pages of page_size, all items as the
\* mock's.
mock_store(n, page_size) ==
    [n |-> n, page_size |-> page_size, shapes |-> [k \in 1..n |-> "plain"],
     next |-> "nonempty"]

\* A store that gives a continuation only while reviews remain beyond the page,
\* so that its last response holds reviews and no `next`.
request_handler_remaining(path, items, page_size, query) ==
    LET arg == args_get(query, "offset")
        offset == IF arg = None THEN 0 ELSE int(arg[1])
        next_offset == offset + page_size
        page == Slice(items, offset, next_offset)
        next_path == IF next_offset < Len(items)
                     THEN Some([path |-> path,
                                query |-> <<[k |-> "offset", v |-> str(next_offset)]>>])
                     ELSE None
    IN  [next |-> next_path, data |-> page]

\* A store whose continuation chain never ends: every response is a full page
\* of further reviews with a `next`.
request_handler_endless(path, page_size, query) ==
    LET arg == args_get(query, "offset")
        offset == IF arg = None THEN 0 ELSE int(arg[1])
        next_offset == offset + page_size
    IN  [next |-> Some([path |-> path,
                        query |-> <<[k |-> "offset", v |-> str(next_offset)]>>]),
         data |-> [k \in 1..page_size |-> review_json(fake_app_review(offset + k))]]

\* The JSON body the store answers to a reviews request, by the way it gives
\* continuations.
api_response(up, path, query) ==
    CASE up.next = "remaining" ->
             request_handler_remaining(path, store_items(up, path.app), up.page_size, query)
      [] up.next = "always" -> request_handler_endless(path, up.page_size, query)
      [] OTHER -> request_handler(path, store_items(up, path.app), up.page_size, query)

\* The app pages the store may serve with status 200: with the config tag and a
\* token, without the tag, or with a config that lacks MEDIA_API or its token.
mock_app_store_page(token) ==
    [tag |-> TRUE, config |-> [MEDIA_API |-> [token |-> token]]]

Pages ==
    {mock_app_store_page(t) : t \in API_TOKENS}
    \cup {[tag |-> FALSE, config |-> EmptyDict],
          [tag |-> TRUE, config |-> [MEDIA_API |-> EmptyDict]],
          [tag |-> TRUE, config |-> [OTHER |-> "x"]]}

\* What one HTTP attempt can meet: a response with a status, or a connection error.
Status(n) == [kind |-> "status", status |-> n]
ConnError == [kind |-> "connerr", status |-> 0]

PageOutcomes == {Status(200), Status(404), Status(429), Status(500), Status(503), ConnError}
ApiOutcomes == {Status(200), Status(429), Status(500), Status(503), ConnError}

\* The store serves an app page at the app's path; the country segment of the
\* path is matched without regard to case.
page_route_matches(path) ==
    /\ path.kind = "page"
    /\ lower(path.country) = COUNTRY
    /\ path.app \in StoreApps

\* The store serves the reviews of its apps at their API paths.
api_route_matches(path) ==
    /\ path.kind = "reviews"
    /\ path.country = COUNTRY
    /\ path.app \in StoreApps

\* --------------------------------------------------------------- Session
\* Mutant: 404 is among the statuses that are retried.
status_forcelist_with_404 == {404, 429, 503}

\* urllib3.Retry(status_forcelist=...)
status_forcelist == {429, 503}

\* Mutant: every 5xx status is retried.
is_retry_5xx(o) == o.kind = "connerr" \/ o.status = 429 \/ o.status >= 500

is_retry(o) == o.kind = "connerr" \/ o.status \in status_forcelist

\* One attempt of PoolManager.request under Retry(total=retries): `sent` requests
\* have gone out and the last met outcome o.  The request is sent again, or
\* urllib3 raises MaxRetryError (raise_on_status is left at its default), or the
\* response is returned to the caller.
http_request(retries, sent, o) ==
    IF is_retry(o)
    THEN (IF sent > retries THEN "MaxRetryError" ELSE "retry")
    ELSE "response"

\* PoolManager.request sleeps Retry.get_backoff_time() before it sends a request
\* again: nothing before the first retry, then factor * 2^(n-1) plus a jitter,
\* capped, where n counts the attempts that have failed.
backoff_time(s, n) ==
    IF n <= 1 THEN {0}
    ELSE {Min(s.retries_backoff_max, s.retries_backoff_factor * 2^(n - 1) + jitter) :
              jitter \in 0..s.retries_backoff_jitter}

\* A keyword argument, or its default.
kwarg(kwargs, name, default) == IF name \in DOMAIN kwargs THEN kwargs[name] ELSE default

\* Mutant: the constructor's defaults as the documentation of the defaults in
\* seconds would read with a backoff factor of 3 s.
AppStoreSession_init_factor3(kwargs) ==
    [delay |-> kwarg(kwargs, "delay", default_delay),
     delay_jitter |-> kwarg(kwargs, "delay_jitter", default_delay_jitter),
     retries |-> kwarg(kwargs, "retries", default_retries),
     retries_backoff_factor |-> kwarg(kwargs, "retries_backoff_factor", 3 * TicksPerSecond),
     retries_backoff_jitter |->
         kwarg(kwargs, "retries_backoff_jitter", default_retries_backoff_jitter),
     retries_backoff_max |-> kwarg(kwargs, "retries_backoff_max", default_retries_backoff_max),
     made_first_request |-> FALSE,
     kwargs |-> DOMAIN kwargs]

\* AppStoreSession(**kwargs); `kwargs` keeps the names of the arguments given.
AppStoreSession_init(kwargs) ==
    [delay |-> kwarg(kwargs, "delay", default_delay),
     delay_jitter |-> kwarg(kwargs, "delay_jitter", default_delay_jitter),
     retries |-> kwarg(kwargs, "retries", default_retries),
     retries_backoff_factor |->
         kwarg(kwargs, "retries_backoff_factor", default_retries_backoff_factor),
     retries_backoff_jitter |->
         kwarg(kwargs, "retries_backoff_jitter", default_retries_backoff_jitter),
     retries_backoff_max |-> kwarg(kwargs, "retries_backoff_max", default_retries_backoff_max),
     made_first_request |-> FALSE,
     kwargs |-> DOMAIN kwargs]

\* Mutant: the session forgets that a request was made.
set_made_first_request_never(s) == s

\* self._made_first_request = True, once a request has returned a response
set_made_first_request(s) == [s EXCEPT !.made_first_request = TRUE]

\* Mutant: the jitter alone makes the session sleep.
apply_delay_jitter_alone(s) ==
    IF s.made_first_request
    THEN {s.delay + jitter : jitter \in 0..s.delay_jitter}
    ELSE {0}

\* _apply_delay: the lengths of the sleep it may make (0: it does not sleep)
apply_delay(s) ==
    IF s.delay > 0 /\ s.made_first_request
    THEN {s.delay + jitter : jitter \in 0..s.delay_jitter}
    ELSE {0}

NoUrl == [path |-> [kind |-> "", country |-> << >>, app |-> << >>], query |-> << >>]

\* A Session operation in progress (or the last one): the request, the sleep that
\* preceded it, how many times it was sent and the last outcome met.
\* `first` tells whether it is the first request the session was asked to make,
\* `backoff` is the sleep before the latest re-send.
NoOp ==
    [url |-> NoUrl, token |-> None, slept |-> 0, sent |-> 0, last |-> None,
     first |-> FALSE, backoff |-> 0]

NewOp(url, token, slept) ==
    [url |-> url, token |-> token, slept |-> slept, sent |-> 1, last |-> None,
     first |-> FALSE, backoff |-> 0]

\* The same operation, sent once more after the backoff sleep.
Resend(op, backoff) == [op EXCEPT !.sent = @ + 1, !.backoff = backoff]

\* --------------------------------------------------------------- Entry
Entries == DOMAIN entry
Iters == DOMAIN gen

AppIdArgs == {IntArg(12), StrArg(APP_ID)}
CountryArgs == {<<"d", "e">>, <<"D", "E">>}
Limits == 0..MaxLimit

\* The app the second Entry of a session is constructed for is the other one.
AppIdArgsOf(e) == IF e = "e2" THEN {IntArg(int(OTHER_APP_ID))} ELSE AppIdArgs

NoEntry ==
    [pc |-> "none", app_id |-> 0, country |-> << >>, api_access_token |-> None,
     err |-> "", page_fetches |-> 0, page |-> None, op |-> NoOp]

\* f"/{country}/app/_/id{app_id}" of _get_app_page, with the arguments as given
app_page_url(app_id, country) ==
    [path |-> [kind |-> "page", country |-> country, app |-> app_id_format(app_id)],
     query |-> << >>]

\* Mutant: a page without the config tag gives an empty token instead of an error.
extract_api_access_token_lenient(page_html) ==
    IF page_html.tag
    THEN LET config == page_html.config
         IN  IF "MEDIA_API" \notin DOMAIN config THEN Raise("KeyError")
             ELSE IF "token" \notin DOMAIN config.MEDIA_API THEN Raise("KeyError")
             ELSE Return(config.MEDIA_API.token)
    ELSE Return("")

extract_api_access_token(page_html) ==
    IF page_html.tag
    THEN LET config == page_html.config
         IN  IF "MEDIA_API" \notin DOMAIN config THEN Raise("KeyError")
             ELSE IF "token" \notin DOMAIN config.MEDIA_API THEN Raise("KeyError")
             ELSE Return(config.MEDIA_API.token)
    ELSE Raise("AppStoreError")

\* What _get_app_page does with a response that the transport returned.
app_page_result(o) ==
    IF o.status = 404 THEN "AppNotFound"
    ELSE IF o.status >= 400 THEN "AppStoreError"
    ELSE ""

\* AppStoreEntry(app_id, country, session=session), up to the page request sent
AppStoreEntry_init(e) ==
    /\ entry[e].pc = "none"
    /\ \E app_id \in AppIdArgsOf(e), country \in CountryArgs, slept \in apply_delay(session) :
         entry' = [entry EXCEPT ![e] =
                     [pc |-> "page_fetching",
                      app_id |-> app_id_int(app_id),
                      country |-> lower(country),
                      api_access_token |-> None,
                      err |-> "",
                      page_fetches |-> 1,
                      page |-> None,
                      op |-> [NewOp(app_page_url(app_id, country), None, slept)
                                EXCEPT !.first = \A e2 \in Entries : entry[e2].pc = "none"]]]
    /\ UNCHANGED <<session, upstream, gen>>

\* One attempt of the page request, and with its last attempt the rest of
\* _get_app_page and of the constructor.
get_app_page(e) ==
    /\ entry[e].pc = "page_fetching"
    /\ \E o \in PageOutcomes :
         /\ (o = Status(200) => page_route_matches(entry[e].op.url.path))
         /\ LET en == [entry[e] EXCEPT !.op.last = Some(o)]
                r == http_request(session.retries, en.op.sent, o)
            IN  CASE r = "retry" ->
                       /\ \E backoff \in backoff_time(session, en.op.sent) :
                            entry' = [entry EXCEPT ![e] =
                                        [en EXCEPT !.op = Resend(en.op, backoff)]]
                       /\ UNCHANGED session
                  [] r = "MaxRetryError" ->
                       /\ entry' = [entry EXCEPT ![e] =
                                      [en EXCEPT !.pc = "failed", !.err = "MaxRetryError"]]
                       /\ UNCHANGED session
                  [] OTHER ->
                       /\ session' = set_made_first_request(session)
                       /\ IF app_page_result(o) # ""
                          THEN entry' = [entry EXCEPT ![e] =
                                    [en EXCEPT !.pc = "failed", !.err = app_page_result(o)]]
                          ELSE \E page \in Pages :
                                 LET t == extract_api_access_token(page)
                                 IN  entry' = [entry EXCEPT ![e] =
                                        IF t.raised # ""
                                        THEN [en EXCEPT !.pc = "failed", !.err = t.raised,
                                                        !.page = Some(page)]
                                        ELSE [en EXCEPT !.pc = "ready",
                                                        !.page = Some(page),
                                                        !.api_access_token = t.value]]
    /\ UNCHANGED <<upstream, gen>>

\* ----------------------------------------------------- reviews(): the generator
NoReviews == [next |-> None, data |-> << >>]

NoGen ==
    [pc |-> "none", entry |-> "e1", limit |-> 0, query_string |-> << >>,
     url |-> None, review_count |-> 0, reviews |-> NoReviews, idx |-> 0,
     asked |-> 0, out |-> << >>, reqs |-> << >>, pages |-> << >>, err |-> "", op |-> NoOp]

\* fromisoformat_utc: a trailing "Z" marks UTC
fromisoformat_utc(date_string) ==
    IF date_string[Len(date_string)] = "Z"
    THEN [t |-> int(SubSeq(date_string, 1, Len(date_string) - 1)), tz |-> "utc"]
    ELSE [t |-> int(date_string), tz |-> "naive"]

AttributeKeys == {"date", "userName", "title", "review", "rating", "isEdited"}
DeveloperResponseKeys == {"id", "body", "modified"}

\* `if dev_response`: None and the empty dict are false
truthy(v) == v # None /\ DOMAIN v[1] # {}

parse_app_review(item) ==
    IF ~ ({"id", "attributes"} \subseteq DOMAIN item) THEN Raise("KeyError")
    ELSE LET attributes == item.attributes
             dev_response == get(attributes, "developerResponse")
         IN  IF ~ (AttributeKeys \subseteq DOMAIN attributes) THEN Raise("KeyError")
             ELSE IF truthy(dev_response)
                     /\ ~ (DeveloperResponseKeys \subseteq DOMAIN dev_response[1])
             THEN Raise("KeyError")
             ELSE Return(
                 [id |-> item.id,
                  date |-> fromisoformat_utc(attributes.date),
                  user_name |-> attributes.userName,
                  title |-> attributes.title,
                  review |-> attributes.review,
                  rating |-> attributes.rating,
                  is_edited |-> attributes.isEdited,
                  developer_response |->
                      IF truthy(dev_response)
                      THEN Some([id |-> dev_response[1].id,
                                 body |-> dev_response[1].body,
                                 modified |-> fromisoformat_utc(dev_response[1].modified)])
                      ELSE None])

\* urlencode(params), as the list of its key=value pairs
query_string(limit) ==
    << [k |-> "platform", v |-> <<"web">>],
       [k |-> "additionalPlatforms", v |-> <<"appletv,ipad,iphone,mac">>],
       [k |-> "sort", v |-> <<"-date">>],
       [k |-> "limit", v |-> IF limit > 0
                             THEN str(Min(limit, REVIEWS_PAGE_SIZE))
                             ELSE str(REVIEWS_PAGE_SIZE)] >>

\* Mutant: every Entry asks for the reviews of the first app.
reviews_path_of_first_app(en) == REVIEWS_API_PATH

\* f"/v1/catalog/{self.country}/apps/{self.app_id}/reviews"
reviews_path(en) == [kind |-> "reviews", country |-> en.country, app |-> str(en.app_id)]

\* Mutant: every request is sent with one fixed token.
access_token_fixed(en) == Some("tokenA")

\* The token a request of this Entry is sent with.
access_token(en) == en.api_access_token

\* Mutant: an iteration starts where another iteration of the same Entry stands.
first_url_resumed(g) ==
    IF \E j \in Iters : gen[j].entry = g.entry /\ gen[j].url # None
    THEN gen[CHOOSE j \in Iters : gen[j].entry = g.entry /\ gen[j].url # None].url[1]
    ELSE [path |-> reviews_path(entry[g.entry]), query |-> g.query_string]

\* url = f"{path}?{query_string}": the first request of an iteration
first_url(g) == [path |-> reviews_path(entry[g.entry]), query |-> g.query_string]

\* self._session._get_api_resource(url, access_token=...), up to the request sent
begin_fetch(g, url, slept) ==
    [g EXCEPT !.pc = "fetching",
              !.url = Some(url),
              !.op = NewOp(url, access_token(entry[g.entry]), slept),
              !.reqs = Append(@, [url |-> url, token |-> access_token(entry[g.entry])])]

\* Mutant: an item that cannot be decoded is passed over.
yield_item_skipping(g, k) ==
    LET r == parse_app_review(g.reviews.data[k])
    IN  IF r.raised # ""
        THEN [g EXCEPT !.pc = "yielded", !.idx = k, !.review_count = @ - 1]
        ELSE [g EXCEPT !.pc = "yielded", !.idx = k, !.out = Append(@, r.value[1])]

\* yield self._parse_app_review(item), for the k-th item of the page
yield_item(g, k) ==
    LET r == parse_app_review(g.reviews.data[k])
    IN  IF r.raised # ""
        THEN [g EXCEPT !.pc = "raised", !.err = r.raised, !.idx = k]
        ELSE [g EXCEPT !.pc = "yielded", !.idx = k, !.out = Append(@, r.value[1])]

\* Mutant: the `next` URL is requested as the API returned it.
next_url_bare(g) == g.reviews.next

\* url = reviews.get("next"); if url: url = f"{url}&{query_string}"
next_url(g) ==
    LET url == g.reviews.next
    IN  IF url # None
        THEN Some([path |-> url[1].path, query |-> url[1].query \o g.query_string])
        ELSE None

\* The end of a page: the next URL, and the loop test `while url`.
after_page(g, slept) ==
    LET url == next_url(g)
    IN  IF url # None
        THEN begin_fetch(g, url[1], slept)
        ELSE [g EXCEPT !.pc = "done", !.url = None]

\* Mutant: the limit test without its `limit > 0` guard.
limit_reached_unguarded(g) == g.review_count >= g.limit

\* Mutant: the limit test one review late.
limit_reached_late(g) == g.limit > 0 /\ g.review_count = g.limit + 1

\* Mutant: the limit is never tested.
limit_reached_never(g) == FALSE

\* The limit test after a yield.
limit_reached(g) == g.limit > 0 /\ g.review_count = g.limit

\* Mutant: the loop over the page stops one item early.
has_more_items_short(g) == g.idx + 1 < Len(g.reviews.data)

\* for item in reviews["data"]: is there another item on the page
has_more_items(g) == g.idx < Len(g.reviews.data)

\* Mutant: reviews() requests the first page when it is called.
reviews_eager(i) ==
    /\ \E e \in Entries, limit \in Limits, slept \in apply_delay(session) :
         /\ entry[e].pc = "ready"
         /\ LET g == [NoGen EXCEPT !.pc = "created", !.entry = e, !.limit = limit,
                                   !.query_string = query_string(limit)]
            IN  gen' = [gen EXCEPT ![i] =
                          begin_fetch(g, [path |-> reviews_path(entry[e]),
                                          query |-> g.query_string], slept)]
    /\ UNCHANGED <<session, upstream, entry>>

\* app.reviews(limit): a new generator; none of its body has run.
reviews(i) ==
    /\ \E e \in Entries, limit \in Limits :
         /\ entry[e].pc = "ready"
         /\ gen' = [gen EXCEPT ![i] = [NoGen EXCEPT !.pc = "created",
                                                   !.entry = e,
                                                   !.limit = limit]]
    /\ UNCHANGED <<session, upstream, entry>>

\* next(generator): the body runs from where it stood to its next request,
\* yield, return or raise.
gen_next(i) ==
    /\ gen[i].pc \in {"created", "yielded"}
    /\ \E slept \in apply_delay(session) :
         gen' = [gen EXCEPT ![i] =
                   IF @.pc = "created"
                   THEN LET g == [gen[i] EXCEPT
                                     !.asked = @ + 1,
                                     !.query_string = query_string(gen[i].limit),
                                     !.review_count = 0]
                        IN  begin_fetch(g, first_url(g), slept)
                   ELSE LET g == [gen[i] EXCEPT !.asked = @ + 1, !.review_count = @ + 1]
                        IN  IF limit_reached(g) THEN [g EXCEPT !.pc = "done"]
                            ELSE IF has_more_items(g)
                            THEN yield_item(g, g.idx + 1)
                            ELSE after_page(g, slept)]
    /\ UNCHANGED <<session, upstream, entry>>

\* What a response brought: how many items, and whether a continuation.
received(body) == [items |-> Len(body.data), next |-> body.next # None]

\* What _get_api_resource does with a response that the transport returned.
api_resource_result(o) == IF o.status >= 400 THEN "AppStoreError" ELSE ""

\* One attempt of the API request, and with its last attempt the rest of
\* _get_api_resource and the generator's body up to its next request, yield,
\* return or raise.
get_api_resource(i) ==
    /\ gen[i].pc = "fetching"
    /\ \E o \in ApiOutcomes :
         /\ (o = Status(200) => api_route_matches(gen[i].op.url.path))
         /\ LET g == [gen[i] EXCEPT !.op.last = Some(o)]
                r == http_request(session.retries, g.op.sent, o)
                made == set_made_first_request(session)
            IN  CASE r = "retry" ->
                       /\ \E backoff \in backoff_time(session, g.op.sent) :
                            gen' = [gen EXCEPT ![i] = [g EXCEPT !.op = Resend(g.op, backoff)]]
                       /\ UNCHANGED session
                  [] r = "MaxRetryError" ->
                       /\ gen' = [gen EXCEPT ![i] =
                                    [g EXCEPT !.pc = "raised", !.err = "MaxRetryError"]]
                       /\ UNCHANGED session
                  [] OTHER ->
                       /\ session' = made
                       /\ IF api_resource_result(o) # ""
                          THEN gen' = [gen EXCEPT ![i] =
                                   [g EXCEPT !.pc = "raised", !.err = api_resource_result(o)]]
                          ELSE LET path == g.op.url.path
                                   body == api_response(upstream, path, g.op.url.query)
                                   g2 == [g EXCEPT !.reviews = body, !.idx = 0,
                                                   !.pages = Append(@, received(body))]
                               IN  IF Len(body.data) > 0
                                   THEN gen' = [gen EXCEPT ![i] = yield_item(g2, 1)]
                                   ELSE \E slept \in apply_delay(made) :
                                          gen' = [gen EXCEPT ![i] = after_page(g2, slept)]
    /\ UNCHANGED <<upstream, entry>>

\* ------------------------------------------------------------ specification
\* The keyword arguments a session is constructed with: a delay, a jitter and
\* a number of retries.
SessionArgs ==
    [delay : {0, MaxDelay}, delay_jitter : {0, MaxJitter}, retries : 0..MaxRetries]

\* The stores of the tests: up to MaxReviews reviews in pages of up to
\* MaxPageSize, and the 10 reviews in pages of 3 of test_happy_path.
Stores ==
    {mock_store(n, page_size) : n \in 0..MaxReviews, page_size \in 1..MaxPageSize}
    \cup {mock_store(10, 3)}

SessionConfigs == {AppStoreSession_init(kwargs) : kwargs \in SessionArgs}

Init ==
    /\ session \in SessionConfigs
    /\ upstream \in Stores
    /\ entry = [e \in {"e1"} |-> NoEntry]
    /\ gen = [i \in {"g1"} |-> NoGen]

Next ==
    \/ \E e \in Entries : AppStoreEntry_init(e)
    \/ \E e \in Entries : get_app_page(e)
    \/ \E i \in Iters : reviews(i)
    \/ \E i \in Iters : gen_next(i)
    \/ \E i \in Iters : get_api_resource(i)

Spec == Init /\ [][Next]_vars

\* Two Entries, for the two apps, and two iterations share one session.
InitShared ==
    /\ session \in {AppStoreSession_init(kwargs) :
                        kwargs \in [delay : {0, MaxDelay}, delay_jitter : {0}, retries : {0}]}
    /\ upstream = mock_store(2, 1)
    /\ entry = [e \in {"e1", "e2"} |-> NoEntry]
    /\ gen = [i \in {"g1", "g2"} |-> NoGen]

\* What the shared session is explored with: countries given in lower case,
\* requests that are answered 200 or fail to connect, pages that hold a token,
\* iterations without limit.
SharedOutcomes == {None, Some(Status(200)), Some(ConnError)}

SharedScope ==
    /\ \A e \in Entries :
          /\ entry[e].op.url.path.country \in {<< >>, COUNTRY}
          /\ entry[e].op.last \in SharedOutcomes
          /\ entry[e].page \in {None} \cup {Some(mock_app_store_page(t)) : t \in API_TOKENS}
    /\ \A i \in Iters :
          /\ gen[i].limit = 0
          /\ gen[i].op.last \in SharedOutcomes

NextShared ==
    \/ (\E e \in Entries : AppStoreEntry_init(e)) /\ SharedScope'
    \/ (\E e \in Entries : get_app_page(e)) /\ SharedScope'
    \/ (\E i \in Iters : reviews(i)) /\ SharedScope'
    \/ (\E i \in Iters : gen_next(i)) /\ SharedScope'
    \/ (\E i \in Iters : get_api_resource(i)) /\ SharedScope'

SpecShared == InitShared /\ [][NextShared]_vars

\* One Entry and one iteration over a store of three reviews in pages of two,
\* whose items have any of the shapes.
InitItems ==
    /\ session = AppStoreSession_init([delay |-> 0, delay_jitter |-> 0, retries |-> 0])
    /\ upstream \in {[mock_store(3, 2) EXCEPT !.shapes = shapes] :
                         shapes \in [1..3 -> ItemShapes]}
    /\ entry = [e \in {"e1"} |-> NoEntry]
    /\ gen = [i \in {"g1"} |-> NoGen]

SpecItems == InitItems /\ [][NextShared]_vars

\* One Entry and one iteration that the consumer keeps advancing, over stores
\* that end their continuation chain with an empty page, with their last
\* reviews, or never.
LiveStores ==
    {[mock_store(n, 2) EXCEPT !.next = next] :
         n \in {0, 1, 3}, next \in {"nonempty", "remaining"}}
    \cup {[mock_store(0, 2) EXCEPT !.next = "always"]}

InitLive ==
    /\ session = AppStoreSession_init([delay |-> 0, delay_jitter |-> 0, retries |-> 1])
    /\ upstream \in LiveStores
    /\ entry = [e \in {"e1"} |-> NoEntry]
    /\ gen = [i \in {"g1"} |-> NoGen]

\* The scope of the shared session, with any limit; only an iteration with a
\* limit is run against the store that never ends.
LiveScope ==
    /\ \A e \in Entries :
          /\ entry[e].op.url.path.country \in {<< >>, COUNTRY}
          /\ entry[e].op.last \in SharedOutcomes
          /\ entry[e].page \in {None} \cup {Some(mock_app_store_page(t)) : t \in API_TOKENS}
    /\ \A i \in Iters :
          /\ gen[i].op.last \in SharedOutcomes
          /\ (upstream.next = "always" /\ gen[i].pc # "none") => gen[i].limit > 0

\* next(generator), and the return of a request of the iteration
Advance == (\E i \in Iters : gen_next(i)) /\ LiveScope'
Fetch == (\E i \in Iters : get_api_resource(i)) /\ LiveScope'

\* The consumer calls reviews() once and stays with the iteration it has.
NextLive ==
    \/ (\E e \in Entries : AppStoreEntry_init(e)) /\ LiveScope'
    \/ (\E e \in Entries : get_app_page(e)) /\ LiveScope'
    \/ (\E i \in Iters : gen[i].pc = "none" /\ reviews(i)) /\ LiveScope'
    \/ Advance
    \/ Fetch

\* The consumer keeps advancing the iteration and every request comes back.
SpecLive == InitLive /\ [][NextLive]_vars /\ WF_vars(Advance) /\ WF_vars(Fetch)

\* One Entry and one iteration on a session constructed with no arguments.
InitDefault ==
    /\ session = AppStoreSession_init(EmptyDict)
    /\ upstream = mock_store(2, 1)
    /\ entry = [e \in {"e1"} |-> NoEntry]
    /\ gen = [i \in {"g1"} |-> NoGen]

SpecDefault == InitDefault /\ [][NextShared]_vars

\* ------------------------------------------------------------------ claims
CeilDiv(a, b) == (a + b - 1) \div b

IsPrefix(s, t) == Len(s) <= Len(t) /\ s = SubSeq(t, 1, Len(s))

\* The reviews the store holds, as the consumer should receive them.
TheReviews == mock_app_reviews(upstream)

Live(i) == gen[i].pc # "none"

\* The generator ended with the error of a failed API fetch.
FetchFailed(g) == g.pc = "raised" /\ g.err \in {"AppStoreError", "MaxRetryError"}

Count(query, key) == Cardinality({j \in 1..Len(query) : query[j].k = key})

FixedKeys == {"platform", "additionalPlatforms", "sort", "limit"}

\* C1: an iteration without limit that is consumed to its end has yielded exactly
\* the store's reviews, each once and in the store's order; on the way what it
\* has yielded is always a prefix of them.
C1_UnlimitedYieldsAllInOrder ==
    \A i \in Iters :
        (Live(i) /\ gen[i].limit = 0) =>
            /\ IsPrefix(gen[i].out, TheReviews)
            /\ (gen[i].pc = "done" => gen[i].out = TheReviews)

C1_Witness ==
    \E i \in Iters :
        /\ gen[i].pc = "done" /\ gen[i].limit = 0
        /\ upstream.page_size = 2 /\ Len(gen[i].out) = 3 /\ Len(gen[i].reqs) = 3

\* C2: an iteration with limit > 0 that is consumed to its end has yielded exactly
\* the first min(N, limit) reviews in order; once the limit-th review is yielded
\* the iteration never fetches again: it has made the fetches up to the page that
\* holds that review and is suspended or has returned.
C2_LimitYieldsFirstAndStopsFetching ==
    \A i \in Iters :
        (Live(i) /\ gen[i].limit > 0) =>
            /\ IsPrefix(gen[i].out, TheReviews)
            /\ Len(gen[i].out) <= gen[i].limit
            /\ (gen[i].pc = "done" =>
                   gen[i].out = SubSeq(TheReviews, 1, Min(upstream.n, gen[i].limit)))
            /\ (Len(gen[i].out) = gen[i].limit =>
                   /\ gen[i].pc \in {"yielded", "done"}
                   /\ Len(gen[i].reqs) = CeilDiv(gen[i].limit, upstream.page_size))

\* The limit-th review was the last item of its page, whose `next` was not null.
C2_Witness ==
    \E i \in Iters :
        /\ gen[i].pc = "done" /\ gen[i].limit > 0
        /\ Len(gen[i].out) = gen[i].limit
        /\ gen[i].idx = Len(gen[i].reviews.data)
        /\ gen[i].reviews.next # None
        /\ gen[i].limit < upstream.n

OnlyOffset(url) == \A j \in 1..Len(url.query) : url.query[j].k = "offset"

\* C3: every request after the first carries the offset of the `next` URL of the
\* response before it (a URL with only an offset parameter) and, each exactly
\* once and with the first request's value, platform, additionalPlatforms, sort
\* and limit; the first request carries no offset.
C3_NextRequestKeepsOffsetAndParams ==
    \A i \in Iters :
        Live(i) =>
            /\ \A j \in 1..Len(gen[i].reqs) :
                  LET q == gen[i].reqs[j].url.query
                      first == gen[i].reqs[1].url.query
                  IN  /\ Count(q, "offset") = (IF j = 1 THEN 0 ELSE 1)
                      /\ \A key \in FixedKeys :
                            /\ Count(q, key) = 1
                            /\ args_get(q, key) = args_get(first, key)
                      /\ gen[i].reqs[j].url.path = gen[i].reqs[1].url.path
            /\ (/\ gen[i].pc = "fetching"
                /\ Len(gen[i].reqs) >= 2
                /\ gen[i].reviews.next # None
                /\ OnlyOffset(gen[i].reviews.next[1])) =>
                   /\ gen[i].op.url = gen[i].reqs[Len(gen[i].reqs)].url
                   /\ args_get(gen[i].op.url.query, "offset")
                        = args_get(gen[i].reviews.next[1].query, "offset")

\* The request of the third page is in flight.
C3_Witness ==
    \E i \in Iters :
        /\ gen[i].pc = "fetching" /\ Len(gen[i].reqs) = 3
        /\ OnlyOffset(gen[i].reviews.next[1])
        /\ args_get(gen[i].op.url.query, "offset") = Some(str(2 * upstream.page_size))

\* C4: when the fetch of page k fails the consumer has received exactly the items
\* of pages 1..k-1, in order, and the generator is finished: it yields nothing
\* more and requests nothing more.
C4_FetchFailureAfterWholePages ==
    \A i \in Iters :
        FetchFailed(gen[i]) =>
            /\ gen[i].out = Slice(TheReviews, 0,
                                  (Len(gen[i].reqs) - 1) * upstream.page_size)
            /\ ~ ENABLED gen_next(i)
            /\ ~ ENABLED get_api_resource(i)

\* The fetch of the second page failed after a full first page was delivered.
C4_Witness ==
    \E i \in Iters :
        /\ FetchFailed(gen[i]) /\ Len(gen[i].reqs) = 2
        /\ upstream.page_size = 2 /\ Len(gen[i].out) = 2

\* The fetches that delivering `asked` items (or finding that there are no more)
\* takes, for n reviews in pages of p.
Needed(asked, n, p) ==
    IF asked = 0 THEN 0
    ELSE IF asked <= n THEN CeilDiv(asked, p)
    ELSE CeilDiv(n, p) + 1

\* C5: no request goes out before the consumer asks for the first item; the
\* fetches made never exceed those needed for the items asked for; a suspended
\* generator that has delivered m items has made the fetches of the pages that
\* hold them and no other; while a fetch is in flight every item of the pages
\* before it has been delivered and the consumer has asked for one more.
C5_LazyNoPrefetch ==
    \A i \in Iters :
        Live(i) =>
            /\ Len(gen[i].reqs) <= Needed(gen[i].asked, upstream.n, upstream.page_size)
            /\ (gen[i].pc = "created" => gen[i].asked = 0)
            /\ (gen[i].pc = "yielded" =>
                   Len(gen[i].reqs) = CeilDiv(Len(gen[i].out), upstream.page_size))
            /\ (gen[i].pc = "fetching" =>
                   /\ gen[i].asked = Len(gen[i].out) + 1
                   /\ gen[i].out = Slice(TheReviews, 0,
                                         (Len(gen[i].reqs) - 1) * upstream.page_size))

\* The consumer stopped after three items of which the third began a new page.
C5_Witness ==
    \E i \in Iters :
        /\ gen[i].pc = "yielded" /\ Len(gen[i].out) = 3
        /\ upstream.page_size = 2 /\ Len(gen[i].reqs) = 2

\* No generator was ever made from this Entry.
NoIteration(e) == \A i \in Iters : ~ (Live(i) /\ gen[i].entry = e)

\* C6: once the page request is answered 404 the construction has failed with
\* AppNotFound: the request is not sent again, the page is not fetched a second
\* time and no API request is made for that Entry.
C6_NotFoundIsTerminal ==
    \A e \in Entries :
        entry[e].op.last = Some(Status(404)) =>
            /\ entry[e].pc = "failed"
            /\ entry[e].err = "AppNotFound"
            /\ entry[e].page_fetches = 1
            /\ NoIteration(e)
            /\ ~ ENABLED get_app_page(e)
            /\ ~ ENABLED AppStoreEntry_init(e)

\* The 404 came at the second attempt, after a retried transient failure.
C6_Witness ==
    \E e \in Entries :
        /\ entry[e].err = "AppNotFound"
        /\ entry[e].op.last = Some(Status(404))
        /\ entry[e].op.sent = 2

\* C7: a page that was fetched successfully but holds no config tag makes the
\* construction fail with AppStoreError, and no API request is made.
C7_NoTagIsAppStoreError ==
    \A e \in Entries :
        (entry[e].page # None /\ ~ entry[e].page[1].tag) =>
            /\ entry[e].pc = "failed"
            /\ entry[e].err = "AppStoreError"
            /\ NoIteration(e)

C7_Witness ==
    \E e \in Entries :
        /\ entry[e].page # None /\ ~ entry[e].page[1].tag
        /\ entry[e].op.last = Some(Status(200))
        /\ entry[e].pc = "failed"

\* The decoded config holds MEDIA_API.token.
HasTokenPath(config) ==
    "MEDIA_API" \in DOMAIN config /\ "token" \in DOMAIN config.MEDIA_API

\* C8: a page whose config tag is present but whose JSON lacks MEDIA_API.token
\* makes the construction fail with AppStoreError, as a page without the tag does.
C8_MissingTokenPathIsAppStoreError ==
    \A e \in Entries :
        (/\ entry[e].page # None
         /\ entry[e].page[1].tag
         /\ ~ HasTokenPath(entry[e].page[1].config)) =>
            /\ entry[e].pc = "failed"
            /\ IsAppStoreError(entry[e].err)

\* C9, in every state: an Entry that was constructed has fetched its page once;
\* every API request of its iterations, made or in flight, carries the token
\* extracted from that page, also after an API fetch has failed.
C9_TokenOfEveryRequest ==
    /\ \A e \in Entries :
          entry[e].pc = "ready" =>
              /\ entry[e].page_fetches = 1
              /\ entry[e].api_access_token
                   = Some(entry[e].page[1].config.MEDIA_API.token)
    /\ \A i \in Iters :
          Live(i) =>
              /\ entry[gen[i].entry].pc = "ready"
              /\ \A j \in 1..Len(gen[i].reqs) :
                    gen[i].reqs[j].token = entry[gen[i].entry].api_access_token
              /\ (gen[i].op.sent > 0 =>
                    gen[i].op.token = entry[gen[i].entry].api_access_token)

\* C9, in every step: a constructed Entry keeps its token and fetches no page.
C9_TokenKept ==
    \A e \in Entries :
        entry[e].pc = "ready" =>
            /\ entry'[e].pc = "ready"
            /\ entry'[e].api_access_token = entry[e].api_access_token
            /\ entry'[e].page_fetches = entry[e].page_fetches

\* C9: the page is fetched once, at construction; every API request carries the
\* token extracted then; the token never changes, and a failed API fetch ends in
\* an error without another page fetch.
C9_TokenFetchedOnceAndReused == [] C9_TokenOfEveryRequest /\ [][C9_TokenKept]_vars

\* The second API fetch of an Entry whose token is tokenB has failed.
C9_Witness ==
    \E i \in Iters :
        /\ FetchFailed(gen[i]) /\ Len(gen[i].reqs) = 2
        /\ entry[gen[i].entry].api_access_token = Some("tokenB")
        /\ entry[gen[i].entry].page_fetches = 1

\* The Session's operation ended because the retries ran out.
RetriesExhausted(pc, op) ==
    pc \in {"failed", "raised"} /\ op.last # None /\ is_retry(op.last[1])

\* C10: a page fetch or an API fetch whose retries ran out on 429, 503 or a
\* connection error ends in AppStoreError.
C10_ExhaustedRetriesAreAppStoreError ==
    /\ \A e \in Entries :
          RetriesExhausted(entry[e].pc, entry[e].op) => IsAppStoreError(entry[e].err)
    /\ \A i \in Iters :
          RetriesExhausted(gen[i].pc, gen[i].op) => IsAppStoreError(gen[i].err)

\* A Session operation that is still being attempted.
InFlight(pc) == pc \in {"page_fetching", "fetching"}

\* The failures the claims call transient.
Transient(o) == o.kind = "connerr" \/ o.status \in {429, 503}

\* What holds of one Session operation, of the constructor or of a generator.
RetryDiscipline(pc, op, err) ==
    /\ op.sent <= session.retries + 1
    /\ (InFlight(pc) /\ op.last # None) => (Transient(op.last[1]) /\ op.sent >= 2)
    /\ (op.last # None /\ ~ Transient(op.last[1])) =>
          /\ ~ InFlight(pc)
          /\ err # "MaxRetryError"
          /\ (op.last[1].status >= 400 => IsAppStoreError(err))
          /\ (op.last[1].status < 400 => err # "AppNotFound")
    /\ (op.last # None /\ Transient(op.last[1]) /\ ~ InFlight(pc)) =>
          (op.sent = session.retries + 1 /\ err = "MaxRetryError")

\* C11: a request is sent again only after 429, 503 or a transport failure, and
\* at most `retries` times; an answer with another status (404, 500, 200) ends
\* the operation at once with the result that answer alone decides, whatever
\* failures came before it; the operation fails for lack of retries only after
\* retries + 1 attempts.
C11_RetryOnlyTransientWithinBudget ==
    /\ \A e \in Entries : RetryDiscipline(entry[e].pc, entry[e].op, entry[e].err)
    /\ \A i \in Iters : RetryDiscipline(gen[i].pc, gen[i].op, gen[i].err)

\* An API request answered 200 at its second attempt delivered its first item.
C11_Witness ==
    \E i \in Iters :
        /\ gen[i].pc = "yielded" /\ gen[i].op.sent = 2
        /\ gen[i].op.last = Some(Status(200))
        /\ gen[i].err = ""

\* The operations of the session: the page request of every Entry and the
\* latest API request of every iteration.
Ops == {entry[e].op : e \in Entries} \cup {gen[i].op : i \in Iters}

\* C12 as stated: the session never sleeps before a request; no request, page or
\* API, is preceded by a sleep.
C12_NoInterRequestSleep == \A op \in Ops : op.slept = 0

\* C12: a session constructed with delay = 0 sleeps before no request, whatever
\* its jitter; a session with delay > 0 sleeps before every API request of an
\* iteration, which follows the page request of its Entry, for delay up to
\* delay + delay_jitter, and not before the page request that is its first.
C12_DelayOnlyWhenConfigured ==
    /\ session.delay = 0 => \A op \in Ops : op.slept = 0
    /\ session.delay > 0 =>
          /\ \A i \in Iters :
                gen[i].op.sent > 0 =>
                    gen[i].op.slept \in session.delay..(session.delay + session.delay_jitter)
          /\ \A e \in Entries : entry[e].op.first => entry[e].op.slept = 0

C12_Witness ==
    \E i \in Iters :
        /\ gen[i].pc = "yielded" /\ Len(gen[i].reqs) = 1
        /\ entry[gen[i].entry].op.sent = 1 /\ gen[i].op.sent = 1
        /\ session.delay = MaxDelay /\ gen[i].op.slept = MaxDelay + MaxJitter

\* C14 as stated: a complete unlimited iteration issues ceil(N/P) fetches, and
\* one more exactly when the last page is full.
C14_TerminatingFetchOnlyAfterFullPage ==
    \A i \in Iters :
        (gen[i].pc = "done" /\ gen[i].limit = 0) =>
            Len(gen[i].reqs) =
                CeilDiv(upstream.n, upstream.page_size)
                + (IF upstream.n % upstream.page_size = 0 THEN 1 ELSE 0)

\* C14: a complete unlimited iteration over N reviews in pages of P issues
\* ceil(N/P) fetches that each return the next P reviews (the last the rest) with
\* a continuation, and then always one more fetch, which returns no review and
\* no continuation; for 10 reviews in pages of 3 the fetches return 3, 3, 3, 1
\* and 0 reviews.
C14_FetchesUntilNoContinuation ==
    \A i \in Iters :
        (gen[i].pc = "done" /\ gen[i].limit = 0) =>
            LET full == CeilDiv(upstream.n, upstream.page_size)
            IN  /\ Len(gen[i].reqs) = full + 1
                /\ Len(gen[i].pages) = full + 1
                /\ \A j \in 1..full :
                      gen[i].pages[j] =
                          [items |-> Min(upstream.page_size,
                                         upstream.n - (j - 1) * upstream.page_size),
                           next |-> TRUE]
                /\ gen[i].pages[full + 1] = [items |-> 0, next |-> FALSE]
                /\ (upstream = mock_store(10, 3) =>
                       [j \in 1..Len(gen[i].pages) |-> gen[i].pages[j].items]
                           = <<3, 3, 3, 1, 0>>)

C14_Witness ==
    \E i \in Iters :
        /\ gen[i].pc = "done" /\ gen[i].limit = 0
        /\ upstream = mock_store(10, 3)
        /\ Len(gen[i].reqs) = 5 /\ Len(gen[i].out) = 10

\* C13: in a session with delay > 0 the first request is not preceded by a sleep
\* and every later request, of any Entry or iteration, is preceded by a sleep of
\* delay - delay_jitter up to delay + delay_jitter; with delay = 0 no request is
\* preceded by a sleep.
C13_SleepBeforeEveryLaterRequest ==
    \A op \in Ops :
        op.sent > 0 =>
            IF session.delay = 0 \/ op.first
            THEN op.slept = 0
            ELSE /\ op.slept > 0
                 /\ op.slept \in (session.delay - session.delay_jitter)
                                    ..(session.delay + session.delay_jitter)

\* The reviews the store holds for the app of the iteration's Entry.
ReviewsOf(i) == store_reviews(upstream, str(entry[gen[i].entry].app_id))

\* The offset a request asks for; the first page is asked for without one.
OffsetOf(req) ==
    LET arg == args_get(req.url.query, "offset")
    IN  IF arg = None THEN 0 ELSE int(arg[1])

\* An iteration runs on its own from page one: its first request has no offset,
\* its j-th request asks for the j-th page, it has yielded a prefix of the
\* reviews, and at its end all of them after a fetch of every page.
FromPageOne(i) ==
    /\ Len(gen[i].reqs) >= 1 => args_get(gen[i].reqs[1].url.query, "offset") = None
    /\ \A j \in 1..Len(gen[i].reqs) :
          OffsetOf(gen[i].reqs[j]) = (j - 1) * upstream.page_size
    /\ IsPrefix(gen[i].out, ReviewsOf(i))
    /\ Len(gen[i].reqs) >= CeilDiv(Len(gen[i].out), upstream.page_size)
    /\ gen[i].pc = "done" =>
          /\ gen[i].out = ReviewsOf(i)
          /\ Len(gen[i].reqs) = CeilDiv(upstream.n, upstream.page_size) + 1

C15_EveryIterationFromPageOne == \A i \in Iters : Live(i) => FromPageOne(i)

\* A step of one iteration leaves every other iteration as it was.
C15_OthersUntouched ==
    \A i, j \in Iters : (i # j /\ gen'[i] # gen[i]) => gen'[j] = gen[j]

\* C15: every call of reviews() starts from page one and keeps its own position
\* and count: iterations on one Entry, one after the other or interleaved, each
\* yield the full sequence from the first review and fetch every page again, and
\* a step of one changes nothing of another.
C15_IterationsIndependent ==
    [] C15_EveryIterationFromPageOne /\ [][C15_OthersUntouched]_vars

C15_Witness ==
    /\ gen["g1"].entry = gen["g2"].entry
    /\ gen["g1"].pc = "done" /\ gen["g2"].pc = "done"
    /\ gen["g1"].out = ReviewsOf("g1") /\ gen["g2"].out = gen["g1"].out
    /\ Len(gen["g1"].out) = 2
    /\ Len(gen["g1"].reqs) = 3 /\ Len(gen["g2"].reqs) = 3

\* C16: when Entries for different apps share one session and their iterations
\* are consumed in any interleaving, each iteration yields a prefix of its own
\* app's reviews in the store's order, all of them at its end, and every API
\* request it has made went to the path of its own Entry's country and app with
\* its own Entry's token.
C16_SharedSessionKeepsEntriesApart ==
    \A i \in Iters :
        Live(i) =>
            LET en == entry[gen[i].entry]
            IN  /\ IsPrefix(gen[i].out, store_reviews(upstream, str(en.app_id)))
                /\ gen[i].pc = "done" =>
                      gen[i].out = store_reviews(upstream, str(en.app_id))
                /\ \A j \in 1..Len(gen[i].reqs) :
                      /\ gen[i].reqs[j].url.path =
                             [kind |-> "reviews", country |-> en.country,
                              app |-> str(en.app_id)]
                      /\ gen[i].reqs[j].token = en.api_access_token
                      /\ gen[i].reqs[j].token # None

C16_Witness ==
    /\ gen["g1"].entry # gen["g2"].entry
    /\ entry["e1"].app_id # entry["e2"].app_id
    /\ entry["e1"].api_access_token # entry["e2"].api_access_token
    /\ gen["g1"].pc = "done" /\ gen["g2"].pc = "done"
    /\ Len(gen["g1"].out) = 2 /\ Len(gen["g2"].out) = 2
    /\ gen["g1"].out # gen["g2"].out

\* C17 as stated: no step of an Entry or of an iteration changes the session.
C17_SessionUnchanged == [][session' = session]_vars

\* A request of the session has come back with a response.
Returned(op) == op.last # None /\ ~ Transient(op.last[1])

\* What the constructor set, without the flag.
Configuration(s) == [s EXCEPT !.made_first_request = FALSE]

C17_FlagTellsARequestReturned ==
    session.made_first_request <=> \E e \in Entries : Returned(entry[e].op)

C17_OnlyFlagRaised ==
    /\ Configuration(session') = Configuration(session)
    /\ session.made_first_request => session'.made_first_request

\* C17: constructing Entries and consuming their reviews never changes the
\* configuration of the session (delay, jitter, retry policy), but it does change
\* its state: _made_first_request is raised when the first request of any flow
\* returns a response and stays raised, so that it tells at any time whether a
\* request has returned.
C17_ConfigurationUnchangedFlagRaisedOnce ==
    [] C17_FlagTellsARequestReturned /\ [][C17_OnlyFlagRaised]_vars

C17_Witness ==
    /\ session.made_first_request /\ session.delay = MaxDelay
    /\ entry["e1"].pc = "ready"
    /\ entry["e2"].pc = "page_fetching" /\ entry["e2"].op.slept = MaxDelay

\* An item lacks a field that a review, or its developer response, must have.
Malformed(shape) == shape \in {"no_id", "no_date", "no_rating", "partial_response"}

\* The place of the first malformed item of the store, or one past its last item.
FirstMalformed ==
    IF \E k \in 1..upstream.n : Malformed(upstream.shapes[k])
    THEN CHOOSE k \in 1..upstream.n :
             /\ Malformed(upstream.shapes[k])
             /\ \A j \in 1..(k - 1) : ~ Malformed(upstream.shapes[j])
    ELSE upstream.n + 1

\* The Review that the k-th item of the store stands for.
Decoded(k) ==
    LET review == mock_app_reviews(upstream)[k]
    IN  [review EXCEPT !.developer_response =
            IF upstream.shapes[k] = "response"
            THEN Some([id |-> 900 + review.id, body |-> "body",
                       modified |-> [t |-> review.date.t, tz |-> "utc"]])
            ELSE None]

\* C18: an item that cannot be decoded stops the sequence with an error at that
\* item: what has been delivered is always a prefix of the items before the
\* first malformed one, decoded in order; the iteration never gets past it to a
\* later item or to its end, and never fetches beyond its page; when the error
\* is raised every item before it has been delivered and nothing can follow.
C18_MalformedItemStopsTheSequence ==
    \A i \in Iters :
        Live(i) =>
            LET good == [k \in 1..(FirstMalformed - 1) |-> Decoded(k)]
            IN  /\ IsPrefix(gen[i].out, good)
                /\ FirstMalformed <= upstream.n =>
                      /\ gen[i].pc # "done"
                      /\ Len(gen[i].reqs) <= CeilDiv(FirstMalformed, upstream.page_size)
                /\ (gen[i].pc = "raised" /\ gen[i].err = "KeyError") =>
                      /\ FirstMalformed <= upstream.n
                      /\ gen[i].out = good
                      /\ Len(gen[i].reqs) = CeilDiv(FirstMalformed, upstream.page_size)
                      /\ ~ ENABLED gen_next(i)
                      /\ ~ ENABLED get_api_resource(i)

C18_Witness ==
    \E i \in Iters :
        /\ gen[i].pc = "raised" /\ gen[i].err = "KeyError"
        /\ upstream.shapes = <<"response", "no_rating", "plain">>
        /\ Len(gen[i].out) = 1 /\ Len(gen[i].reqs) = 1

\* C19: the k-th delivered Review carries a developer response with id, body and
\* modified set from the item when the item has a complete developerResponse,
\* and none when the item has no developerResponse or a null one; an item whose
\* developerResponse is present but lacks a field is never delivered, its decode
\* fails.
C19_DeveloperResponseWholeOrAbsent ==
    \A i \in Iters :
        \A k \in 1..Len(gen[i].out) :
            LET shape == upstream.shapes[k]
                review == mock_app_reviews(upstream)[k]
                response == gen[i].out[k].developer_response
            IN  /\ shape = "response" =>
                      response = Some([id |-> 900 + review.id, body |-> "body",
                                       modified |-> [t |-> review.date.t, tz |-> "utc"]])
                /\ shape \in {"plain", "null_response"} => response = None
                /\ shape \notin {"partial_response", "empty_response"}

\* C20 as stated: a session constructed with no arguments makes 5 attempts per
\* request, with a backoff factor of 3 seconds and a backoff cap of 60 seconds.
C20_DefaultsFactorThree ==
    session.kwargs = {} =>
        /\ session.retries + 1 = 5
        /\ session.retries_backoff_factor = 3 * TicksPerSecond
        /\ session.retries_backoff_max = 60 * TicksPerSecond

\* C20: a session constructed with no arguments makes at most 5 attempts per
\* request, with a backoff factor of 2 seconds and a backoff cap of 60 seconds:
\* no request is sent more than 5 times, one that keeps failing ends with the
\* transport's error at its 5th attempt, and its re-sends wait 0, 4, 8 and 16
\* seconds.
C20_DefaultsFiveAttemptsFactorTwo ==
    session.kwargs = {} =>
        /\ session.retries + 1 = 5
        /\ session.retries_backoff_factor = 2 * TicksPerSecond
        /\ session.retries_backoff_max = 60 * TicksPerSecond
        /\ \A op \in Ops :
              /\ op.sent <= 5
              /\ op.backoff = (IF op.sent <= 2 THEN 0
                               ELSE 2 * TicksPerSecond * 2^(op.sent - 2))
              /\ op.backoff <= 60 * TicksPerSecond
        /\ \A e \in Entries : entry[e].err = "MaxRetryError" => entry[e].op.sent = 5
        /\ \A i \in Iters : gen[i].err = "MaxRetryError" => gen[i].op.sent = 5

C20_Witness ==
    /\ session.kwargs = {}
    /\ \E i \in Iters :
          /\ gen[i].pc = "raised" /\ gen[i].err = "MaxRetryError"
          /\ gen[i].op.sent = 5 /\ gen[i].op.backoff = 16 * TicksPerSecond

\* C21: every request made for an Entry addresses its normalized pair: the app
\* page request of the constructor and every reviews API request go to a path
\* with the lower-case country and the decimal digits of the integer app id, so
\* that the letter case of the country given makes no difference to the requests.
C21_RequestsAddressNormalizedPair ==
    /\ \A e \in Entries :
          entry[e].op.sent > 0 =>
              entry[e].op.url.path =
                  [kind |-> "page", country |-> entry[e].country,
                   app |-> str(entry[e].app_id)]
    /\ \A i \in Iters :
          \A j \in 1..Len(gen[i].reqs) :
              gen[i].reqs[j].url.path =
                  [kind |-> "reviews", country |-> entry[gen[i].entry].country,
                   app |-> str(entry[gen[i].entry].app_id)]

\* The iteration has ended: it has returned or raised.
Ended(g) == g.pc \in {"done", "raised"}

\* How many items the responses brought.
RECURSIVE ItemsReceived(_)
ItemsReceived(pages) ==
    IF pages = << >> THEN 0 ELSE Head(pages).items + ItemsReceived(Tail(pages))

\* The last response of the iteration had no continuation and all of its items
\* were delivered; every response before it had a continuation.
EndedAtLastPage(g) ==
    /\ Len(g.pages) >= 1
    /\ ~ g.pages[Len(g.pages)].next
    /\ \A j \in 1..(Len(g.pages) - 1) : g.pages[j].next
    /\ g.reviews.next = None /\ g.idx = Len(g.reviews.data)
    /\ Len(g.out) = ItemsReceived(g.pages)

C22_EndsWhereItShould ==
    \A i \in Iters :
        LET g == gen[i]
        IN  /\ g.limit > 0 => (Len(g.out) <= g.limit /\ g.review_count <= g.limit)
            /\ (g.pc = "done" /\ g.limit = 0) => EndedAtLastPage(g)
            /\ (g.pc = "done" /\ g.limit > 0) =>
                  (Len(g.out) = g.limit \/ EndedAtLastPage(g))
            /\ (g.pc # "done" /\ g.pc # "none" /\ g.limit = 0) =>
                  \A j \in 1..Len(g.pages) : g.pages[j].next \/ g.pc = "yielded"
            /\ g.pc = "raised" => FetchFailed(g)
            /\ Ended(g) => (~ ENABLED gen_next(i) /\ ~ ENABLED get_api_resource(i))

\* C22: an iteration that the consumer keeps advancing, and whose requests come
\* back, ends: without limit it returns as soon as a response has no `next`,
\* after delivering that page's items; with a limit > 0 it has never yielded
\* more than limit reviews and returns at the limit even over a store whose
\* continuation chain never ends; it raises only when a fetch has failed.
C22_AdvancedIterationEnds ==
    /\ [] C22_EndsWhereItShould
    /\ (gen["g1"].pc = "created") ~> Ended(gen["g1"])

C22_Witness ==
    /\ upstream.next = "always"
    /\ gen["g1"].pc = "done" /\ gen["g1"].limit = MaxLimit
    /\ Len(gen["g1"].out) = MaxLimit
    /\ gen["g1"].reviews.next # None

====
